---- MODULE Spec2Model ----
\* Bank module of cosm-tome (src/modules/bank/api.rs): the funds transfer
\* bank_send and the eight read-only bank queries, together with the
\* collaborators they call (sign_tx, the Chain Client, the amount and
\* pagination conversions) and the node they talk to.
EXTENDS Integers, Sequences, FiniteSets, TLC

VARIABLES mode, pc, args, funds, seqOf, ret, calls, receipt, startNo, chainSeq,
          qlog, iter

vars == <<mode, pc, args, funds, seqOf, ret, calls, receipt, startNo, chainSeq,
          qlog, iter>>

sendVars == <<mode, pc, args, funds, seqOf, ret, calls, receipt, startNo, chainSeq>>

-----------------------------------------------------------------------------
\* Bounds of the model.

\* Longest amounts sequence a caller passes to bank_send.
MaxLen == 2
\* Largest magnitude a caller puts in a Coin.
MaxAmount == 3
\* Largest magnitude the wire form of a transfer amount represents; one below
\* MaxAmount, so that the largest caller magnitude does not convert.
WireMax == MaxAmount - 1
\* Longest list of entries in a query response.
MaxList == 2
\* Largest page limit of a request cursor.
MaxLimit == 2
\* Largest number of items the node holds for a paginated query.
MaxItems == 3
\* The node's default page size.
DefaultPage == 2

\* The two bank_send calls of one signer.
Calls == {1, 2}

Denoms == {"utoken"}

-----------------------------------------------------------------------------
\* Option<T>: <<>> is None, <<v>> is Some(v).

None == <<>>
Some(v) == <<v>>
IsSome(o) == o # <<>>

\* Sequences over S of length at most n.
SeqsUpTo(S, n) == UNION {[1..k -> S] : k \in 0..n}

-----------------------------------------------------------------------------
\* Amount/Denom model.

Coins == [amount : 0..MaxAmount, denom : Denoms]

DigitChars == <<"0", "1", "2", "3", "4", "5", "6", "7", "8", "9">>

\* The decimal numeral of n, as a sequence of characters.
RECURSIVE Digits(_)
Digits(n) ==
  IF n < 10 THEN <<DigitChars[n + 1]>>
  ELSE Digits(n \div 10) \o <<DigitChars[(n % 10) + 1]>>

\* Coin -> wire coin (amount.try_into()): the magnitude becomes its numeral;
\* a magnitude the wire form does not represent fails with an encoding error.
CoinTryInto(coin) ==
  IF coin.amount > WireMax
  THEN [ok |-> FALSE, err |-> "Encoding", val |-> [denom |-> "", amount |-> <<>>]]
  ELSE [ok |-> TRUE, err |-> "",
        val |-> [denom |-> coin.denom, amount |-> Digits(coin.amount)]]

IsDigit(ch) == \E d \in 1..10 : DigitChars[d] = ch

DigitValue(ch) == CHOOSE d \in 0..9 : DigitChars[d + 1] = ch

RECURSIVE NumeralValue(_)
NumeralValue(s) ==
  IF s = <<>> THEN 0
  ELSE NumeralValue(SubSeq(s, 1, Len(s) - 1)) * 10 + DigitValue(s[Len(s)])

\* The string-magnitude of a wire coin parsed as an unsigned integer: the empty
\* string and a string with a character that is no digit do not parse. (The
\* numerals of the model are far shorter than the 39 digits of the largest
\* 128-bit magnitude, so no numeral overflows.)
ParseAmount(s) ==
  IF s = <<>> \/ \E i \in 1..Len(s) : ~IsDigit(s[i])
  THEN [ok |-> FALSE, val |-> 0]
  ELSE [ok |-> TRUE, val |-> NumeralValue(s)]

-----------------------------------------------------------------------------
\* bank_send.

\* The arguments of one bank_send call: whether key.to_addr succeeds for the
\* key, whether MsgSend::to_any succeeds for the addresses, and the amounts.
SendArgs == [keyOk : BOOLEAN, protoOk : BOOLEAN, amounts : SeqsUpTo(Coins, MaxLen)]

\* The arguments used when two calls of the signer are in play.
RaceArgs ==
  {a \in SendArgs : a.protoOk /\ Len(a.amounts) <= 1
                    /\ \A i \in 1..Len(a.amounts) : a.amounts[i].amount <= 1}

NoArgs == [keyOk |-> FALSE, protoOk |-> FALSE, amounts |-> <<>>]

SendErr(e) == [kind |-> "Err", err |-> e, code |-> 0, log |-> ""]
ChainRejected(code, log) == [kind |-> "Err", err |-> "ChainRejected", code |-> code, log |-> log]
SendOk(r) == [kind |-> "Ok", err |-> "", code |-> r.code, log |-> r.log]
NoRet == [kind |-> "None", err |-> "", code |-> 0, log |-> ""]

\* ConvertFunds with the zero check lost: a zero amount is converted like any other.
RECURSIVE ConvertFundsNoZeroCheck(_, _)
ConvertFundsNoZeroCheck(amounts, cosm_funds) ==
  IF amounts = <<>> THEN [ok |-> TRUE, err |-> "", funds |-> cosm_funds]
  ELSE LET w == CoinTryInto(Head(amounts)) IN
       IF ~w.ok THEN [ok |-> FALSE, err |-> w.err, funds |-> <<>>]
       ELSE ConvertFundsNoZeroCheck(Tail(amounts), Append(cosm_funds, w.val))

\* ConvertFunds in two passes: every amount is checked for zero before any is
\* converted.
ConvertFundsZeroFirst(amounts, cosm_funds) ==
  IF \E i \in 1..Len(amounts) : amounts[i].amount = 0
  THEN [ok |-> FALSE, err |-> "EmptyAmount", funds |-> <<>>]
  ELSE ConvertFundsNoZeroCheck(amounts, cosm_funds)

\* for amount in amounts { if amount.amount == 0 { return Err(EmptyAmount) }
\*                         cosm_funds.push(amount.try_into()?) }
RECURSIVE ConvertFunds(_, _)
ConvertFunds(amounts, cosm_funds) ==
  IF amounts = <<>> THEN [ok |-> TRUE, err |-> "", funds |-> cosm_funds]
  ELSE LET amount == Head(amounts) IN
       IF amount.amount = 0
       THEN [ok |-> FALSE, err |-> "EmptyAmount", funds |-> <<>>]
       ELSE LET w == CoinTryInto(amount) IN
            IF ~w.ok THEN [ok |-> FALSE, err |-> w.err, funds |-> <<>>]
            ELSE ConvertFunds(Tail(amounts), Append(cosm_funds, w.val))

\* BankSendLocal with the check of an empty cosm_funds lost.
BankSendLocalNoEmptyCheck(a) ==
  IF ~a.keyOk THEN [ok |-> FALSE, err |-> "Key", funds |-> <<>>]
  ELSE LET r == ConvertFunds(a.amounts, <<>>) IN
       IF ~r.ok THEN r
       ELSE IF ~a.protoOk THEN [ok |-> FALSE, err |-> "ProtoEncoding", funds |-> <<>>]
       ELSE r

\* The part of bank_send before its first await: address derivation, the loop
\* over the amounts, the emptiness check and the encoding of the message.
BankSendLocal(a) ==
  IF ~a.keyOk THEN [ok |-> FALSE, err |-> "Key", funds |-> <<>>]
  ELSE LET r == ConvertFunds(a.amounts, <<>>) IN
       IF ~r.ok THEN r
       ELSE IF Len(r.funds) = 0 THEN [ok |-> FALSE, err |-> "EmptyAmount", funds |-> <<>>]
       ELSE IF ~a.protoOk THEN [ok |-> FALSE, err |-> "ProtoEncoding", funds |-> <<>>]
       ELSE r

\* AfterSignTx with a retry: a failed sign_tx is run again.
AfterSignTxRetry(r) ==
  IF r.kind = "Err" THEN [pc |-> "sign_tx", ret |-> NoRet]
  ELSE [pc |-> "broadcast_tx", ret |-> NoRet]

\* let tx_raw = sign_tx(...).await?;  an error of sign_tx is returned, a signed
\* transaction goes on to the broadcast.
AfterSignTx(r) ==
  IF r.kind = "Err" THEN [pc |-> "done", ret |-> r]
  ELSE [pc |-> "broadcast_tx", ret |-> NoRet]

\* AfterBroadcastTx with the error of the broadcast swallowed: whatever came
\* back is wrapped in a SendResponse.
AfterBroadcastTxUnchecked(r) == [pc |-> "done", ret |-> SendOk(r)]

\* let res = client.client.broadcast_tx(&tx_raw).await?;  Ok(SendResponse { res })
AfterBroadcastTx(r) ==
  IF r.kind = "Err" THEN [pc |-> "done", ret |-> r]
  ELSE [pc |-> "done", ret |-> SendOk(r)]

\* sign_tx: resolves the signer's account number and sequence number with an
\* account query, then signs. outcome is what the collaborators do.
SignTxResult(outcome) ==
  CASE outcome = "transport" -> SendErr("Transport")
    [] outcome = "signing"   -> SendErr("Signing")
    [] OTHER                 -> [kind |-> "Ok", err |-> "", code |-> 0, log |-> ""]

NoReceipt == [code |-> 0, log |-> "", at |-> "none"]

\* The node's handling of a broadcast transaction signed with sequence number s:
\* a stale sequence number is rejected, an unfunded transfer is rejected, and an
\* accepted transaction consumes the sequence number.
NodeReceipt(s, current, funded) ==
  IF s # current THEN [code |-> 32, log |-> "account sequence mismatch", at |-> "node"]
  ELSE IF ~funded THEN [code |-> 5, log |-> "insufficient funds", at |-> "node"]
  ELSE [code |-> 0, log |-> "", at |-> "node"]

\* The Chain Client's broadcast: a transport failure, or the node's receipt; a
\* receipt with a non-zero result code is a ChainRejected error.
BroadcastTxResult(transportOk, rcpt) ==
  IF ~transportOk THEN SendErr("Transport")
  ELSE IF rcpt.code # 0 THEN ChainRejected(rcpt.code, rcpt.log)
  ELSE [kind |-> "Ok", err |-> "", code |-> rcpt.code, log |-> rcpt.log]

\* ResolveSequence with a cache: the sequence number an earlier call of the
\* signer resolved is used again.
ResolveSequenceCached(resolved, current) ==
  IF resolved = {} THEN current ELSE CHOOSE s \in resolved : \A t \in resolved : s <= t

\* Step 1 of sign_tx: the sequence number is the one the node holds for the
\* account when the account query is answered, whatever earlier calls resolved.
ResolveSequence(resolved, current) == current

NoCalls == [sign |-> 0, query |-> 0, broadcast |-> 0]

\* A call may start when the mode allows it: alone, one after the other, or
\* side by side.
MayStart(c) ==
  /\ pc[c] = "idle"
  /\ mode = "single" => c = 1
  /\ mode = "serial" => \A d \in Calls \ {c} : pc[d] \in {"idle", "done"}

ArgsOf(m) == IF m = "single" THEN SendArgs ELSE RaceArgs

\* bank_send is called and runs to its first await, or returns a local error.
bank_send(c) ==
  /\ MayStart(c)
  /\ \E a \in ArgsOf(mode) :
       LET r == BankSendLocal(a) IN
       /\ args' = [args EXCEPT ![c] = a]
       /\ funds' = [funds EXCEPT ![c] = r.funds]
       /\ pc' = [pc EXCEPT ![c] = IF r.ok THEN "sign_tx" ELSE "done"]
       /\ ret' = [ret EXCEPT ![c] = IF r.ok THEN NoRet ELSE SendErr(r.err)]
  /\ startNo' = [startNo EXCEPT ![c] = Cardinality({d \in Calls : pc[d] # "idle"}) + 1]
  /\ UNCHANGED <<mode, seqOf, calls, receipt, chainSeq, qlog, iter>>

\* sign_tx runs: one account query, which resolves the sequence number the
\* transaction is signed with, then the signature.
sign_tx(c) ==
  /\ pc[c] = "sign_tx"
  /\ \E outcome \in {"transport", "signing", "ok"} :
       LET r == SignTxResult(outcome)
           n == AfterSignTx(r) IN
       /\ calls' = [calls EXCEPT ![c].sign = @ + 1, ![c].query = @ + 1]
       /\ seqOf' = [seqOf EXCEPT ![c] = IF outcome = "ok"
                                        THEN Some(ResolveSequence(
                                               {seqOf[d][1] : d \in {e \in Calls : IsSome(seqOf[e])}},
                                               chainSeq))
                                        ELSE @]
       /\ pc' = [pc EXCEPT ![c] = n.pc]
       /\ ret' = [ret EXCEPT ![c] = n.ret]
  /\ UNCHANGED <<mode, args, funds, receipt, startNo, chainSeq, qlog, iter>>

\* broadcast_tx runs: the transaction reaches the node or the transport fails.
broadcast_tx(c) ==
  /\ pc[c] = "broadcast_tx"
  /\ \E transportOk \in BOOLEAN, funded \in BOOLEAN :
       LET rcpt == IF transportOk THEN NodeReceipt(seqOf[c][1], chainSeq, funded)
                   ELSE NoReceipt
           n == AfterBroadcastTx(BroadcastTxResult(transportOk, rcpt)) IN
       /\ calls' = [calls EXCEPT ![c].broadcast = @ + 1]
       /\ receipt' = [receipt EXCEPT ![c] = rcpt]
       /\ chainSeq' = IF transportOk /\ rcpt.code = 0 THEN chainSeq + 1 ELSE chainSeq
       /\ pc' = [pc EXCEPT ![c] = n.pc]
       /\ ret' = [ret EXCEPT ![c] = n.ret]
  /\ UNCHANGED <<mode, args, funds, seqOf, startNo, qlog, iter>>

-----------------------------------------------------------------------------
\* Wire forms of the query responses.

\* The string-magnitudes a node puts in a wire coin: the empty string, two
\* numerals and a string that is no numeral.
WireAmounts == {<<>>, <<"5">>, <<"1", "2">>, <<"1", "x">>}

WireCoins == [denom : Denoms, amount : WireAmounts]

\* Wire coin -> Coin (try_into on a response entry): the string-magnitude is
\* parsed; a string that does not parse fails with MalformedAmount.
CoinFromWire(w) ==
  LET n == ParseAmount(w.amount) IN
  IF ~n.ok THEN [ok |-> FALSE, err |-> "MalformedAmount", val |-> [amount |-> 0, denom |-> ""]]
  ELSE [ok |-> TRUE, err |-> "", val |-> [amount |-> n.val, denom |-> w.denom]]

WireMetadatas == [base : Denoms, exponent : {0, 6}]

\* Wire denom metadata -> metadata of the model (Into::into), field by field.
MetadataFrom(m) == [base |-> m.base, exponent |-> m.exponent]

WireParams == [default_send_enabled : BOOLEAN]

\* Wire params -> params of the model (Into::into).
ParamsFrom(q) == [default_send_enabled |-> q.default_send_enabled]

-----------------------------------------------------------------------------
\* Pagination model.

\* Opaque keys: the empty key is a key like any other.
Keys == {<<>>, <<1>>}

\* The caller's request cursor.
PaginationRequests ==
  [key : {None} \cup {Some(k) : k \in Keys}, offset : {None, Some(1)},
   limit : 0..MaxLimit, count_total : BOOLEAN, reverse : BOOLEAN]

\* encode_request: the request cursor in its wire shape; every field is kept,
\* the limit becomes an optional field that is present.
PageRequestFrom(p) ==
  [key |-> p.key, offset |-> p.offset, limit |-> Some(p.limit),
   count_total |-> p.count_total, reverse |-> p.reverse]

\* The wire shape of a response cursor.
PageResponses ==
  [next_key : {None} \cup {Some(k) : k \in Keys}, total : {None, Some(2)}]

\* decode_response: the response cursor, every field kept.
PaginationResponseFrom(w) == [next_key |-> w.next_key, total |-> w.total]


-----------------------------------------------------------------------------
\* The Chain Client's query and the node behind it.

\* A response of the bank query service; each query reads its own fields.
EmptyResp ==
  [balance |-> None, amount |-> None, balances |-> <<>>, supply |-> <<>>, metadata |-> None, metadatas |-> <<>>,
   params |-> None, pagination |-> None]

PaginationOptions == {None} \cup {Some(w) : w \in PageResponses}

BalanceResps == {[EmptyResp EXCEPT !.balance = b] : b \in {None} \cup {Some(w) : w \in WireCoins}}

BalancesResps ==
  {[EmptyResp EXCEPT !.balances = l, !.pagination = g] :
     l \in SeqsUpTo(WireCoins, MaxList), g \in PaginationOptions}

SupplyResps == {[EmptyResp EXCEPT !.amount = b] : b \in {None} \cup {Some(w) : w \in WireCoins}}

SupplyListResps ==
  {[EmptyResp EXCEPT !.supply = l, !.pagination = g] :
     l \in SeqsUpTo(WireCoins, MaxList), g \in PaginationOptions}

MetadataResps ==
  {[EmptyResp EXCEPT !.metadata = m] : m \in {None} \cup {Some(w) : w \in WireMetadatas}}

MetadatasResps ==
  {[EmptyResp EXCEPT !.metadatas = l, !.pagination = g] :
     l \in SeqsUpTo(WireMetadatas, MaxList), g \in PaginationOptions}

ParamsResps == {[EmptyResp EXCEPT !.params = q] : q \in {None} \cup {Some(w) : w \in WireParams}}

\* What the transport and the node do with one query: the transport fails, or
\* bytes come back that do not unmarshal into the response type, or a response.
Outcomes(resps) ==
  {[transport |-> "fail", decodes |-> FALSE, resp |-> EmptyResp],
   [transport |-> "ok", decodes |-> FALSE, resp |-> EmptyResp]}
  \cup {[transport |-> "ok", decodes |-> TRUE, resp |-> r] : r \in resps}

\* A client whose next query has the given outcome.
FixedClient(o) == [node |-> FALSE, outcome |-> o, items |-> <<>>, omit |-> FALSE]

\* A client in front of a node that holds a finite list of items and serves it
\* page by page; omit: the node leaves the response cursor out on the last page.
NodeClient(items, omit) ==
  [node |-> TRUE, outcome |-> [transport |-> "ok", decodes |-> TRUE, resp |-> EmptyResp],
   items |-> items, omit |-> omit]

Min(a, b) == IF a < b THEN a ELSE b

\* The node's page for a wire page request: the items from the key's position,
\* at most limit of them, and the key of the item after the page when there is
\* one. A request without a key starts at the first item; without a limit, or
\* with limit 0, the page has the node's default size. The total is given when
\* the request asks for it.
NodePage(items, pagination) ==
  LET n == Len(items)
      first == IF pagination = None \/ pagination[1].key = None
               THEN 1 ELSE pagination[1].key[1][1]
      lim == IF pagination = None \/ pagination[1].limit = None
                \/ pagination[1].limit[1] = 0
             THEN DefaultPage ELSE pagination[1].limit[1]
      last == Min(n, first + lim - 1)
  IN [page |-> SubSeq(items, first, last),
      next_key |-> IF last < n THEN Some(<<last + 1>>) ELSE None,
      total |-> IF pagination # None /\ pagination[1].count_total THEN Some(n) ELSE None]

\* The Chain Client's answer to one request.
ClientOutcome(client, req) ==
  IF ~client.node THEN client.outcome
  ELSE LET g == NodePage(client.items, req.pagination)
           cursor == IF g.next_key = None /\ client.omit THEN None
                     ELSE Some([next_key |-> g.next_key, total |-> g.total])
       IN [transport |-> "ok", decodes |-> TRUE,
           resp |-> IF req.path = "/cosmos.bank.v1beta1.Query/DenomsMetadata"
                    THEN [EmptyResp EXCEPT !.metadatas = g.page, !.pagination = cursor]
                    ELSE IF req.path = "/cosmos.bank.v1beta1.Query/TotalSupply"
                    THEN [EmptyResp EXCEPT !.supply = g.page, !.pagination = cursor]
                    ELSE [EmptyResp EXCEPT !.balances = g.page, !.pagination = cursor]]

\* client.query::<_, Req, Resp>(req, path): the request is sent once; a transport
\* failure is returned without touching any bytes, bytes that do not unmarshal
\* are a Decode error, and a response is returned unmarshalled.
Query(client, req) ==
  LET o == ClientOutcome(client, req) IN
  IF o.transport = "fail"
  THEN [kind |-> "Err", err |-> "Transport", queries |-> 1, unmarshals |-> 0,
        resp |-> EmptyResp]
  ELSE IF ~o.decodes
  THEN [kind |-> "Err", err |-> "Decode", queries |-> 1, unmarshals |-> 1,
        resp |-> EmptyResp]
  ELSE [kind |-> "Ok", err |-> "", queries |-> 1, unmarshals |-> 1, resp |-> o.resp]

-----------------------------------------------------------------------------
\* The bank queries.

EmptyResult ==
  [kind |-> "None", err |-> "", balance |-> None, balances |-> <<>>, meta |-> None,
   metas |-> <<>>, params |-> None, next |-> None]

QErr(e) == [EmptyResult EXCEPT !.kind = "Err", !.err = e]
QPanic == [EmptyResult EXCEPT !.kind = "Panic"]
QOk == [EmptyResult EXCEPT !.kind = "Ok"]

Request(path, pagination) == [path |-> path, pagination |-> pagination]

\* What one call of a query did: the request it sent, how many queries and
\* broadcasts it made of the Chain Client, how many unmarshals and how many
\* conversions of response data were attempted, and what it returned.
Trace(op, arg, client, req, q, converts, result) ==
  [op |-> op, arg |-> arg, outcome |-> ClientOutcome(client, req), req |-> req,
   queries |-> q.queries, broadcasts |-> 0, unmarshals |-> q.unmarshals,
   converts |-> converts, ret |-> result]

\* CollectCoins with the entries that do not convert left out of the list.
RECURSIVE CollectCoinsSkipBad(_, _)
CollectCoinsSkipBad(coins, acc) ==
  IF coins = <<>> THEN [ok |-> TRUE, err |-> "", vals |-> acc, converts |-> Len(acc)]
  ELSE LET c == CoinFromWire(Head(coins)) IN
       IF ~c.ok THEN CollectCoinsSkipBad(Tail(coins), acc)
       ELSE CollectCoinsSkipBad(Tail(coins), Append(acc, c.val))

\* coins.into_iter().map(TryInto::try_into).collect::<Result<Vec<_>, _>>():
\* the entries are converted in order up to the first that fails.
RECURSIVE CollectCoins(_, _)
CollectCoins(coins, acc) ==
  IF coins = <<>> THEN [ok |-> TRUE, err |-> "", vals |-> acc, converts |-> Len(acc)]
  ELSE LET c == CoinFromWire(Head(coins)) IN
       IF ~c.ok THEN [ok |-> FALSE, err |-> c.err, vals |-> <<>>, converts |-> Len(acc) + 1]
       ELSE CollectCoins(Tail(coins), Append(acc, c.val))

\* res.balance.unwrap().try_into()?  and  Ok(BalanceResponse { balance })
UnwrapBalance(op, arg, client, req, q, balance) ==
  IF balance = None THEN Trace(op, arg, client, req, q, 0, QPanic)
  ELSE LET b == CoinFromWire(balance[1]) IN
       IF ~b.ok THEN Trace(op, arg, client, req, q, 1, QErr(b.err))
       ELSE Trace(op, arg, client, req, q, 1, [QOk EXCEPT !.balance = Some(b.val)])

bank_query_balance(client) ==
  LET req == Request("/cosmos.bank.v1beta1.Query/Balance", None)
      q == Query(client, req) IN
  IF q.kind = "Err" THEN Trace("balance", None, client, req, q, 0, QErr(q.err))
  ELSE UnwrapBalance("balance", None, client, req, q, q.resp.balance)

bank_query_supply(client) ==
  LET req == Request("/cosmos.bank.v1beta1.Query/SupplyOf", None)
      q == Query(client, req) IN
  IF q.kind = "Err" THEN Trace("supply", None, client, req, q, 0, QErr(q.err))
  ELSE UnwrapBalance("supply", None, client, req, q, q.resp.amount)

\* The three list queries of coins differ in their request type, their path and
\* the field of the response that holds the list (supply for the total supply).
CoinsQuery(op, path, pagination, client) ==
  LET req == Request(path, IF pagination = None THEN None
                           ELSE Some(PageRequestFrom(pagination[1])))
      q == Query(client, req) IN
  IF q.kind = "Err" THEN Trace(op, pagination, client, req, q, 0, QErr(q.err))
  ELSE LET balances == CollectCoins(IF op = "total_supply" THEN q.resp.supply
                                    ELSE q.resp.balances, <<>>) IN
       IF ~balances.ok
       THEN Trace(op, pagination, client, req, q, balances.converts, QErr(balances.err))
       ELSE Trace(op, pagination, client, req, q, balances.converts,
                  [QOk EXCEPT !.balances = balances.vals,
                              !.next = IF q.resp.pagination = None THEN None
                                       ELSE Some(PaginationResponseFrom(q.resp.pagination[1]))])

\* bank_query_balances with a failed query taken for an empty response.
bank_query_balancesOrDefault(pagination, client) ==
  LET req == Request("/cosmos.bank.v1beta1.Query/AllBalances",
                     IF pagination = None THEN None
                     ELSE Some(PageRequestFrom(pagination[1])))
      q == Query(client, req) IN
  IF q.kind = "Err" THEN Trace("balances", pagination, client, req, q, 0, QOk)
  ELSE CoinsQuery("balances", "/cosmos.bank.v1beta1.Query/AllBalances", pagination, client)

bank_query_balances(pagination, client) ==
  CoinsQuery("balances", "/cosmos.bank.v1beta1.Query/AllBalances", pagination, client)

bank_query_spendable_balances(pagination, client) ==
  CoinsQuery("spendable_balances", "/cosmos.bank.v1beta1.Query/SpendableBalances",
             pagination, client)

bank_query_total_supply(pagination, client) ==
  CoinsQuery("total_supply", "/cosmos.bank.v1beta1.Query/TotalSupply", pagination, client)

bank_query_denom_metadata(client) ==
  LET req == Request("/cosmos.bank.v1beta1.Query/DenomMetadata", None)
      q == Query(client, req) IN
  IF q.kind = "Err" THEN Trace("denom_metadata", None, client, req, q, 0, QErr(q.err))
  ELSE Trace("denom_metadata", None, client, req, q,
             IF q.resp.metadata = None THEN 0 ELSE 1,
             [QOk EXCEPT !.meta = IF q.resp.metadata = None THEN None
                                  ELSE Some(MetadataFrom(q.resp.metadata[1]))])

\* bank_query_denoms_metadata with the response cursor left out of the result.
bank_query_denoms_metadataNoNext(pagination, client) ==
  LET req == Request("/cosmos.bank.v1beta1.Query/DenomsMetadata",
                     IF pagination = None THEN None
                     ELSE Some(PageRequestFrom(pagination[1])))
      q == Query(client, req) IN
  IF q.kind = "Err" THEN Trace("denoms_metadata", pagination, client, req, q, 0, QErr(q.err))
  ELSE Trace("denoms_metadata", pagination, client, req, q, Len(q.resp.metadatas),
             [QOk EXCEPT !.metas = [i \in 1..Len(q.resp.metadatas) |->
                                      MetadataFrom(q.resp.metadatas[i])]])

bank_query_denoms_metadata(pagination, client) ==
  LET req == Request("/cosmos.bank.v1beta1.Query/DenomsMetadata",
                     IF pagination = None THEN None
                     ELSE Some(PageRequestFrom(pagination[1])))
      q == Query(client, req) IN
  IF q.kind = "Err" THEN Trace("denoms_metadata", pagination, client, req, q, 0, QErr(q.err))
  ELSE Trace("denoms_metadata", pagination, client, req, q, Len(q.resp.metadatas),
             [QOk EXCEPT !.metas = [i \in 1..Len(q.resp.metadatas) |->
                                      MetadataFrom(q.resp.metadatas[i])],
                         !.next = IF q.resp.pagination = None THEN None
                                  ELSE Some(PaginationResponseFrom(q.resp.pagination[1]))])

bank_query_params(client) ==
  LET req == Request("/cosmos.bank.v1beta1.Query/Params", None)
      q == Query(client, req) IN
  IF q.kind = "Err" THEN Trace("params", None, client, req, q, 0, QErr(q.err))
  ELSE Trace("params", None, client, req, q,
             IF q.resp.params = None THEN 0 ELSE 1,
             [QOk EXCEPT !.params = IF q.resp.params = None THEN None
                                    ELSE Some(ParamsFrom(q.resp.params[1]))])

-----------------------------------------------------------------------------
\* The callers of the queries.

NoQuery ==
  [op |-> "none", arg |-> None,
   outcome |-> [transport |-> "ok", decodes |-> FALSE, resp |-> EmptyResp],
   req |-> Request("", None), queries |-> 0, broadcasts |-> 0, unmarshals |-> 0,
   converts |-> 0, ret |-> EmptyResult]

PaginatedOps == {"balances", "spendable_balances", "total_supply", "denoms_metadata"}

CoinOps == {"balances", "spendable_balances", "total_supply"}

PaginatedQuery(op, pagination, client) ==
  CASE op = "balances"           -> bank_query_balances(pagination, client)
    [] op = "spendable_balances" -> bank_query_spendable_balances(pagination, client)
    [] op = "total_supply"       -> bank_query_total_supply(pagination, client)
    [] op = "denoms_metadata"    -> bank_query_denoms_metadata(pagination, client)

PaginationArgs == {None} \cup {Some(p) : p \in PaginationRequests}

\* One query is called once, with any arguments, against a client with any
\* outcome.
Idle == qlog.op = "none" /\ iter.op = "none" /\ mode = "query"

QueryBalance ==
  /\ Idle
  /\ \E o \in Outcomes(BalanceResps) : qlog' = bank_query_balance(FixedClient(o))
  /\ UNCHANGED <<sendVars, iter>>

QuerySupply ==
  /\ Idle
  /\ \E o \in Outcomes(SupplyResps) : qlog' = bank_query_supply(FixedClient(o))
  /\ UNCHANGED <<sendVars, iter>>

QueryBalances ==
  /\ Idle
  /\ \E g \in PaginationArgs, o \in Outcomes(BalancesResps) :
       qlog' = bank_query_balances(g, FixedClient(o))
  /\ UNCHANGED <<sendVars, iter>>

QuerySpendableBalances ==
  /\ Idle
  /\ \E g \in PaginationArgs, o \in Outcomes(BalancesResps) :
       qlog' = bank_query_spendable_balances(g, FixedClient(o))
  /\ UNCHANGED <<sendVars, iter>>

QueryTotalSupply ==
  /\ Idle
  /\ \E g \in PaginationArgs, o \in Outcomes(SupplyListResps) :
       qlog' = bank_query_total_supply(g, FixedClient(o))
  /\ UNCHANGED <<sendVars, iter>>

QueryDenomMetadata ==
  /\ Idle
  /\ \E o \in Outcomes(MetadataResps) : qlog' = bank_query_denom_metadata(FixedClient(o))
  /\ UNCHANGED <<sendVars, iter>>

QueryDenomsMetadata ==
  /\ Idle
  /\ \E g \in PaginationArgs, o \in Outcomes(MetadatasResps) :
       qlog' = bank_query_denoms_metadata(g, FixedClient(o))
  /\ UNCHANGED <<sendVars, iter>>

QueryParams ==
  /\ Idle
  /\ \E o \in Outcomes(ParamsResps) : qlog' = bank_query_params(FixedClient(o))
  /\ UNCHANGED <<sendVars, iter>>

\* The items a node holds for a paginated query: n wire coins, or n wire
\* metadata entries, all different.
NodeItems(op, n) ==
  IF op \in CoinOps
  THEN [i \in 1..n |-> [denom |-> "utoken", amount |-> Digits(i)]]
  ELSE [i \in 1..n |-> [base |-> "utoken", exponent |-> i]]

\* The same items as the caller receives them.
CallerItems(op, n) ==
  IF op \in CoinOps
  THEN [i \in 1..n |-> [amount |-> i, denom |-> "utoken"]]
  ELSE [i \in 1..n |-> [base |-> "utoken", exponent |-> i]]

NoIter ==
  [op |-> "none", n |-> 0, limit |-> 0, omit |-> FALSE, count_total |-> FALSE,
   cursor |-> FALSE, key |-> None, got |-> <<>>, done |-> FALSE, failed |-> FALSE]

\* A caller about to page through the n items of a node, limit at a time; its
\* first request carries a cursor without a key, or no cursor at all.
Iterations ==
  {[NoIter EXCEPT !.op = op, !.n = n, !.limit = l, !.omit = o, !.count_total = t,
                  !.cursor = f] :
     op \in PaginatedOps, n \in 0..MaxItems, l \in 1..MaxLimit, o \in BOOLEAN,
     t \in BOOLEAN, f \in BOOLEAN}

\* The requests a paging caller makes of a node: the query, the node's number of
\* items and its way of ending, and the cursor.
PageCalls ==
  [op : PaginatedOps, n : 0..MaxItems, omit : BOOLEAN,
   arg : {None} \cup
         {Some([key |-> k, offset |-> None, limit |-> l, count_total |-> t,
                reverse |-> FALSE]) :
            k \in {None} \cup {Some(<<i>>) : i \in 1..MaxItems},
            l \in 1..MaxLimit, t \in BOOLEAN}]

\* What the query does on each of these requests, computed once.
PageAnswers ==
  {[call |-> c,
    answer |-> PaginatedQuery(c.op, c.arg, NodeClient(NodeItems(c.op, c.n), c.omit))] :
     c \in PageCalls}

PageAnswer(c) == (CHOOSE a \in PageAnswers : a.call = c).answer

\* One round of the caller's loop: the query is called with the start key set
\* to the next key of the previous response, the items of the page are kept, and
\* the loop ends when the response has no next key.
IterStep ==
  /\ mode = "query" /\ iter.op # "none" /\ ~iter.done
  /\ \E t \in {PageAnswer([op |-> iter.op, n |-> iter.n, omit |-> iter.omit,
                             arg |-> IF iter.key = None /\ ~iter.cursor THEN None
                                     ELSE Some([key |-> iter.key, offset |-> None,
                                                limit |-> iter.limit,
                                                count_total |-> iter.count_total,
                                                reverse |-> FALSE])])} :
       \E ends \in {t.ret.next = None \/ t.ret.next[1].next_key = None} :
         /\ qlog' = t
         /\ iter' = IF t.ret.kind # "Ok" THEN [iter EXCEPT !.done = TRUE, !.failed = TRUE]
                    ELSE [iter EXCEPT
                            !.got = @ \o (IF iter.op \in CoinOps THEN t.ret.balances
                                          ELSE t.ret.metas),
                            !.key = IF ends THEN @ ELSE t.ret.next[1].next_key,
                            !.done = ends]
  /\ UNCHANGED sendVars

-----------------------------------------------------------------------------
InitSend(m) ==
  /\ mode = m
  /\ pc = [c \in Calls |-> "idle"]
  /\ args = [c \in Calls |-> NoArgs]
  /\ funds = [c \in Calls |-> <<>>]
  /\ seqOf = [c \in Calls |-> None]
  /\ ret = [c \in Calls |-> NoRet]
  /\ calls = [c \in Calls |-> NoCalls]
  /\ receipt = [c \in Calls |-> NoReceipt]
  /\ startNo = [c \in Calls |-> 0]
  /\ chainSeq = 0
  /\ qlog = NoQuery

\* One bank_send call, over all its arguments.
Init == InitSend("single") /\ iter = NoIter

NextSend == \E c \in Calls : bank_send(c) \/ sign_tx(c) \/ broadcast_tx(c)

Spec == Init /\ [][NextSend]_vars

\* Two bank_send calls of one signer, one after the other or side by side.
InitRace == \E m \in {"serial", "concurrent"} : InitSend(m) /\ iter = NoIter

SpecRace == InitRace /\ [][NextSend]_vars

\* The queries: one call of one query.
InitQuery == InitSend("query") /\ iter = NoIter

NextQuery ==
  \/ QueryBalance \/ QuerySupply \/ QueryBalances \/ QuerySpendableBalances
  \/ QueryTotalSupply \/ QueryDenomMetadata \/ QueryDenomsMetadata \/ QueryParams

SpecQuery == InitQuery /\ [][NextQuery]_vars

\* The paginated queries: one call of one of them, or a caller paging through a
\* node's items, whose loop keeps running until it ends.
InitIter == InitSend("query") /\ iter \in {NoIter} \cup Iterations

NextIter ==
  \/ QueryBalances \/ QuerySpendableBalances \/ QueryTotalSupply \/ QueryDenomsMetadata
  \/ IterStep

SpecIter == InitIter /\ [][NextIter]_vars /\ WF_vars(IterStep)

-----------------------------------------------------------------------------
\* Properties of bank_send.

Done(c) == pc[c] = "done"

HasZero(amounts) == \E i \in 1..Len(amounts) : amounts[i].amount = 0

\* The indices of the amounts the loop of bank_send stops at.
Offending(amounts) ==
  {i \in 1..Len(amounts) : amounts[i].amount = 0 \/ amounts[i].amount > WireMax}

FirstOffending(amounts) ==
  CHOOSE i \in Offending(amounts) : \A j \in Offending(amounts) : i <= j

NoClientCall(c) == calls[c].sign = 0 /\ calls[c].query = 0 /\ calls[c].broadcast = 0

Accepted(c) == receipt[c].at = "node" /\ receipt[c].code = 0

\* C1, as stated: every call whose amounts contain a zero magnitude returns
\* EmptyAmount and invokes no Chain Client operation, whatever the other
\* amounts and the key are.
C1_AsStated ==
  \A c \in Calls :
    Done(c) /\ HasZero(args[c].amounts) =>
      ret[c] = SendErr("EmptyAmount") /\ NoClientCall(c)

\* C1, amended: every call whose amounts contain a zero magnitude returns a
\* local error and invokes no Chain Client operation; the error is EmptyAmount
\* when the key yields the sender address and no amount placed before the first
\* zero fails its wire conversion, the key's error when the address derivation
\* fails, and the conversion's error when an earlier amount does not convert.
C1_ZeroAmountRejected ==
  \A c \in Calls :
    Done(c) /\ HasZero(args[c].amounts) =>
      LET a == args[c]
          i == FirstOffending(a.amounts) IN
      /\ NoClientCall(c)
      /\ ret[c].kind = "Err"
      /\ ~a.keyOk => ret[c] = SendErr("Key")
      /\ a.keyOk /\ a.amounts[i].amount = 0 => ret[c] = SendErr("EmptyAmount")
      /\ a.keyOk /\ a.amounts[i].amount # 0 => ret[c] = SendErr("Encoding")

\* A call with a convertible amount followed by a zero amount has returned
\* EmptyAmount.
C1_Witness ==
  \E c \in Calls :
    /\ Done(c) /\ args[c].keyOk /\ Len(args[c].amounts) = 2
    /\ args[c].amounts[1].amount = 1 /\ args[c].amounts[2].amount = 0
    /\ ret[c] = SendErr("EmptyAmount")

\* C2, as stated: every call with an empty amounts sequence returns EmptyAmount
\* and invokes neither sign_tx nor broadcast_tx.
C2_AsStated ==
  \A c \in Calls :
    Done(c) /\ args[c].amounts = <<>> =>
      ret[c] = SendErr("EmptyAmount") /\ NoClientCall(c)

\* C2, amended: every call with an empty amounts sequence returns a local error
\* and invokes neither sign_tx nor broadcast_tx; the error is EmptyAmount when
\* the key yields the sender address, and the key's error when it does not.
C2_EmptyAmountsRejected ==
  \A c \in Calls :
    Done(c) /\ args[c].amounts = <<>> =>
      /\ NoClientCall(c)
      /\ args[c].keyOk => ret[c] = SendErr("EmptyAmount")
      /\ ~args[c].keyOk => ret[c] = SendErr("Key")

\* A call with a good key and no amounts has returned EmptyAmount.
C2_Witness ==
  \E c \in Calls :
    Done(c) /\ args[c].keyOk /\ args[c].amounts = <<>> /\ ret[c] = SendErr("EmptyAmount")

C5_NoRetry ==
  \A c \in Calls :
    /\ calls[c].sign <= 1 /\ calls[c].query <= 1 /\ calls[c].broadcast <= 1
    /\ pc[c] = "broadcast_tx" \/ calls[c].broadcast > 0 =>
         calls[c].sign = 1 /\ IsSome(seqOf[c])
    /\ calls[c].sign = 1 /\ ~IsSome(seqOf[c]) =>
         /\ Done(c) /\ calls[c].broadcast = 0
         /\ ret[c] \in {SendErr("Transport"), SendErr("Signing")}
    /\ calls[c].broadcast = 1 =>
         /\ Done(c)
         /\ receipt[c].at = "none" => ret[c] = SendErr("Transport")
         /\ receipt[c].at = "node" /\ receipt[c].code # 0 => ret[c].kind = "Err"

\* A call whose sign_tx failed has returned the error without a broadcast.
C5_Witness ==
  \E c \in Calls :
    Done(c) /\ calls[c].sign = 1 /\ calls[c].broadcast = 0 /\ ret[c] = SendErr("Signing")

-----------------------------------------------------------------------------
\* Properties of the queries.

Answered == qlog.outcome.transport = "ok" /\ qlog.outcome.decodes

\* The list of wire coins in the response of the last list query.
RespCoins == IF qlog.op = "total_supply" THEN qlog.outcome.resp.supply
             ELSE qlog.outcome.resp.balances

\* C4: a balance or supply response whose balance field is absent is answered
\* with a successful BalanceResponse of magnitude zero, without failing or
\* aborting.
C4_MissingBalanceIsZero ==
  /\ qlog.op = "balance" /\ Answered /\ qlog.outcome.resp.balance = None =>
       /\ qlog.ret.kind = "Ok"
       /\ IsSome(qlog.ret.balance) /\ qlog.ret.balance[1].amount = 0
  /\ qlog.op = "supply" /\ Answered /\ qlog.outcome.resp.amount = None =>
       /\ qlog.ret.kind = "Ok"
       /\ IsSome(qlog.ret.balance) /\ qlog.ret.balance[1].amount = 0

\* C7: every bank query sends one query and no broadcast; when the transport
\* fails it returns a Transport error and neither unmarshals nor converts
\* anything.
C7_TransportError ==
  qlog.op # "none" =>
    /\ qlog.queries = 1 /\ qlog.broadcasts = 0
    /\ qlog.outcome.transport = "fail" =>
         /\ qlog.ret = QErr("Transport")
         /\ qlog.unmarshals = 0 /\ qlog.converts = 0

\* A balances query whose transport failed has returned a Transport error.
C7_Witness ==
  /\ qlog.op = "balances" /\ qlog.outcome.transport = "fail"
  /\ qlog.ret = QErr("Transport") /\ qlog.queries = 1

\* C8: a list query whose response has an entry that does not convert returns
\* one error, with no list and no cursor; otherwise its result holds every
\* entry of the response, converted, in the response's order.
C8_NoPartialList ==
  qlog.op \in CoinOps /\ Answered =>
    LET l == RespCoins IN
    IF \E i \in 1..Len(l) : ~ParseAmount(l[i].amount).ok
    THEN /\ qlog.ret = QErr("MalformedAmount")
         /\ qlog.ret.balances = <<>> /\ qlog.ret.next = None
    ELSE /\ qlog.ret.kind = "Ok"
         /\ Len(qlog.ret.balances) = Len(l)
         /\ \A i \in 1..Len(l) :
              /\ qlog.ret.balances[i].denom = l[i].denom
              /\ qlog.ret.balances[i].amount = ParseAmount(l[i].amount).val

\* A total supply query whose response had a good entry followed by a
\* malformed one has returned an error and no list.
C8_Witness ==
  /\ qlog.op = "total_supply" /\ Answered /\ Len(RespCoins) = 2
  /\ ParseAmount(RespCoins[1].amount).ok /\ ~ParseAmount(RespCoins[2].amount).ok
  /\ qlog.ret.kind = "Err" /\ qlog.ret.balances = <<>>

\* The request of the last paginated query carries the caller's cursor
\* unchanged, and none when the caller gave none.
Forwarded ==
  qlog.op \in PaginatedOps =>
    /\ qlog.arg = None <=> qlog.req.pagination = None
    /\ qlog.arg # None =>
         LET a == qlog.arg[1]
             w == qlog.req.pagination[1] IN
         /\ w.key = a.key /\ w.offset = a.offset /\ w.limit = Some(a.limit)
         /\ w.count_total = a.count_total /\ w.reverse = a.reverse

\* The result of the last paginated query has a next cursor exactly when the
\* response has a cursor, with the response's next key and total.
NextCursor ==
  qlog.op \in PaginatedOps /\ qlog.ret.kind = "Ok" =>
    /\ qlog.ret.next = None <=> qlog.outcome.resp.pagination = None
    /\ qlog.ret.next # None =>
         /\ qlog.ret.next[1].next_key = qlog.outcome.resp.pagination[1].next_key
         /\ qlog.ret.next[1].total = qlog.outcome.resp.pagination[1].total

\* A paging caller has received the node's items in order, each once, so far,
\* and all of them when its loop has ended.
IterReceived ==
  iter.op # "none" =>
    /\ ~iter.failed
    /\ Len(iter.got) <= iter.n
    /\ iter.got = SubSeq(CallerItems(iter.op, iter.n), 1, Len(iter.got))
    /\ iter.done => Len(iter.got) = iter.n

\* C9: a paginated query forwards the caller's cursor unchanged and returns a
\* next cursor exactly when the response carries one, with the response's next
\* key; a caller that pages with start_key := previous next_key until the next
\* key is absent ends, having received every item of the node exactly once.
C9_Pagination ==
  /\ [](Forwarded /\ NextCursor /\ IterReceived)
  /\ (iter.op # "none") ~> iter.done

\* A caller has paged through the most items one at a time and its loop has
\* ended with all of them.
C9_Witness ==
  /\ iter.op # "none" /\ iter.done /\ iter.n = MaxItems /\ iter.limit = 1
  /\ iter.got = CallerItems(iter.op, iter.n)
  /\ qlog.arg # None /\ IsSome(qlog.arg[1].key) /\ qlog.ret.next # None
  /\ qlog.ret.next[1].next_key = None

====
